---- MODULE Spec2Model ----
(***************************************************************************)
(* State machine of the room / poll coordination server:                   *)
(*   src/server.js            socket.io handlers, teachingSessions,        *)
(*                            gamingRooms                                  *)
(*   src/unnamed/part_001     event controller: events, eventPolls,        *)
(*                            createEvent, createPoll, votePoll            *)
(*   src/unnamed/part_004     WebRTCHandler: rooms, handleUserDisconnect   *)
(* Every inbound event, HTTP request and timer callback runs to completion *)
(* (single-threaded event loop), so each is one action.                    *)
(***************************************************************************)
EXTENDS Integers, Sequences, FiniteSets, TLC

\* ---------------------------------------------------------------- bounds
MaxPolls == 2
MaxTime == 1
MaxMembers == 3
MaxMessages == 2

\* ------------------------------------------------------ program constants
DefaultDuration == 60

ConnIds == {1, 2, 3}
UserIds == {"u1", "u2"}
OptionCounts == {2}
OptionInputs == {0, 1, 2}
EventIds == {"EVENT-1"}
GameIds == {"GAME-1"}
Names == {"A", "B"}
StudentIds == {"s1", "s2"}
TeachIds == {"T1", "T2"}
Durations == {0, 1}
PayloadShapes == {"text"}
UnknownPollIds == {-1}
Messages == {"m1", "m2"}
RelayEvents == {"offer", "answer", "ice-candidate", "webrtc-offer", "webrtc-answer",
                "webrtc-ice-candidate", "webrtc-signal"}
Payloads == {"sdp"}
JoinShapes == {"string", "object"}
\* the room a socket joins when it passes an object to socket.join: the
\* adapter keys rooms by identity, so the room holds that socket alone
ObjectRoom == <<"[object]-1", "[object]-2", "[object]-3">>
NoConn == 0

VARIABLES
  now,               \* Date.now()
  crashed,           \* an exception escaped a socket handler: process is gone
  connected,         \* socket ids of live connections
  closedConns,       \* socket ids whose connection was lost
  sockRooms,         \* socket.io adapter: socket id -> rooms joined
  events,            \* Map eventId -> event             (part_001:31)
  eventPolls,        \* Map pollId -> poll object ref     (part_001:32)
  pollObjs,          \* heap of poll objects, ref = index
  timers,            \* armed setTimeout callbacks
  teachingSessions,  \* Map roomId -> session             (server.js:40)
  gamingRooms,       \* Map roomId -> room                (server.js:41)
  rooms,             \* WebRTCHandler.rooms               (part_004:6)
  out,               \* messages emitted by the last handled event
  res,               \* HTTP response of the last handled request
  last,              \* the event / request / callback handled last
  approved,          \* history: <<connection, room>> pairs a room's host approved
  actor              \* the socket whose event was handled last, NoConn if none

vars == <<now, crashed, connected, closedConns, sockRooms, events, eventPolls,
          pollObjs, timers, teachingSessions, gamingRooms, rooms, out, res, last,
          approved, actor>>

pollVars == <<eventPolls, pollObjs, timers>>
roomVars == <<teachingSessions, gamingRooms, rooms>>
connVars == <<connected, closedConns, sockRooms>>

\* ---------------------------------------------------------------- helpers
EmptyMap == [x \in {} |-> 0]

MapSet(f, k, v) == [x \in DOMAIN f \cup {k} |-> IF x = k THEN v ELSE f[x]]

NoRes == [status |-> 0, message |-> ""]

Min(S) == CHOOSE x \in S : \A y \in S : x <= y

RECURSIVE Sorted(_)
Sorted(S) == IF S = {} THEN <<>> ELSE <<Min(S)>> \o Sorted(S \ {Min(S)})

Range(s) == {s[i] : i \in 1..Len(s)}

\* one message to each socket of T
Fanout(T, ev, data) ==
  LET S == Sorted(T)
  IN [i \in 1..Len(S) |-> [to |-> S[i], ev |-> ev, data |-> data]]

\* the live sockets that joined `room`, given the adapter's state
Members(live, sr, room) == {c \in live : room \in Range(sr[c])}

InRoom(room) == Members(connected, sockRooms, room)

\* socket.join(room): the adapter keeps a socket's rooms in the order joined
Join(sr, c, room) ==
  IF room \in Range(sr[c]) THEN sr ELSE [sr EXCEPT ![c] = Append(@, room)]

\* io.to(room).emit(ev, data)
IoTo(room, ev, data) == Fanout(InRoom(room), ev, data)

\* socket.to(room).emit(ev, data): the sender is left out
SocketTo(c, room, ev, data) == Fanout(InRoom(room) \ {c}, ev, data)

\* socket.emit(ev, data)
SocketEmit(c, ev, data) == <<[to |-> c, ev |-> ev, data |-> data]>>

\* io.to(socketId).emit(ev, data): a socket's own id is a room holding it alone;
\* nothing is sent when no live socket has that id
IoToSocket(c, ev, data) ==
  IF c \in connected THEN <<[to |-> c, ev |-> ev, data |-> data]>> ELSE <<>>

\* Array.prototype.findIndex / find over the matching indices I: the first
\* of them, 0 when nothing matches (JS: -1, undefined)
FindIndex(I) == IF I = {} THEN 0 ELSE Min(I)

\* ------------------------------------------------------------------ Init
Init ==
  /\ now = 0
  /\ crashed = FALSE
  /\ connected = {}
  /\ closedConns = {}
  /\ sockRooms = [c \in ConnIds |-> <<>>]
  /\ events = EmptyMap
  /\ eventPolls = EmptyMap
  /\ pollObjs = <<>>
  /\ timers = {}
  /\ teachingSessions = EmptyMap
  /\ gamingRooms = EmptyMap
  /\ rooms = EmptyMap
  /\ out = <<>>
  /\ res = NoRes
  /\ last = "init"
  /\ approved = {}
  /\ actor = NoConn

\* ---------------------------------------------------------- environment
\* the clock moves on: by one instant, and past the modelled instants up to
\* the deadline of an armed timer
Tick ==
  /\ \E t \in {now + 1} \cup {tm.at : tm \in timers} :
       /\ t > now
       /\ IF now < MaxTime THEN t = now + 1 ELSE t \in {tm.at : tm \in timers}
       /\ now' = t
  /\ out' = <<>>
  /\ res' = NoRes
  /\ last' = "tick"
  /\ actor' = NoConn
  /\ UNCHANGED <<approved, crashed, connVars, events, pollVars, roomVars>>

\* io.on('connection'): a socket with a fresh id
Connection(c) ==
  /\ ~crashed
  /\ c \notin connected \cup closedConns
  /\ connected' = connected \cup {c}
  /\ out' = <<>>
  /\ res' = NoRes
  /\ last' = "connection"
  /\ actor' = c
  /\ UNCHANGED <<approved, now, crashed, closedConns, sockRooms, events, pollVars, roomVars>>

\* ------------------------------------------------------ event controller
NewEvent ==
  [status |-> "created", hostSocketId |-> NoConn, hostName |-> "host",
   title |-> "title", attendees |-> <<>>, polls |-> <<>>,
   chatEnabled |-> TRUE, messages |-> <<>>, startedAt |-> {}]

createEvent(e) ==
  /\ ~crashed
  /\ e \notin DOMAIN events
  /\ events' = MapSet(events, e, NewEvent)
  /\ res' = [status |-> 200, message |-> "created"]
  /\ out' = <<>>
  /\ last' = "createEvent"
  /\ actor' = NoConn
  /\ UNCHANGED <<approved, now, crashed, connVars, pollVars, roomVars>>

\* options.map((option, index) => ({ id: index, text, votes: 0, voters: [] }))
NewOptions(n) == [i \in 1..n |-> [id |-> i - 1, votes |-> 0, voters |-> <<>>]]

\* duration || 60
DurationOr(d) == IF d = 0 THEN DefaultDuration ELSE d

\* the poll object built by createPoll (part_001:135-150)
NewPoll(pollId, e, n, d) ==
  [id |-> pollId, eventId |-> e, src |-> "createPoll", shape |-> "object",
   options |-> NewOptions(n), duration |-> DurationOr(d), status |-> "active",
   totalVotes |-> 0, hasVotes |-> FALSE, votes |-> EmptyMap]

\* setTimeout(cb, (duration || 60) * 1000)
Timer(ref, pollId, e, d, src, c) ==
  [ref |-> ref, pollId |-> pollId, at |-> now + DurationOr(d), src |-> src,
   eventId |-> e, sock |-> c]

\* POLL-${Date.now()}
NewPollId == now

createPoll(e, n, d) ==
  /\ ~crashed
  /\ Len(pollObjs) < MaxPolls
  /\ now <= MaxTime
  /\ last' = "createPoll"
  /\ actor' = NoConn
  /\ out' = <<>>
  /\ IF e \notin DOMAIN events
     THEN /\ res' = [status |-> 404, message |-> "Event not found"]
          /\ UNCHANGED <<events, pollVars>>
     ELSE LET ref == Len(pollObjs) + 1
              pollId == NewPollId
          IN /\ pollObjs' = Append(pollObjs, NewPoll(pollId, e, n, d))
             /\ eventPolls' = MapSet(eventPolls, pollId, ref)
             /\ events' = [events EXCEPT ![e].polls = Append(@, ref)]
             /\ timers' = timers \cup {Timer(ref, pollId, e, d, "createPoll", NoConn)}
             /\ res' = [status |-> 200, message |-> "poll"]
  /\ UNCHANGED <<approved, now, crashed, connVars, roomVars>>

NotActive_NoStatusCheck(poll) == FALSE

\* poll.status !== 'active' (part_001:180)
NotActive(poll) == poll.status # "active"

\* poll.options.some(option => option.voters.includes(userId))
HasVoted(poll, userId) ==
  \E i \in 1..Len(poll.options) :
    \E j \in 1..Len(poll.options[i].voters) : poll.options[i].voters[j] = userId

\* poll.options.find(opt => opt.id === optionId), 0 when there is none
FindOption(poll, optionId) ==
  FindIndex({i \in 1..Len(poll.options) : poll.options[i].id = optionId})

AddVote_NoVoter(poll, i, userId) ==
  [poll EXCEPT !.options[i].votes = @ + 1,
               !.totalVotes = @ + 1]

AddVote_NoTotal(poll, i, userId) ==
  [poll EXCEPT !.options[i].votes = @ + 1,
               !.options[i].voters = Append(@, userId)]

\* option.votes++; option.voters.push(userId); poll.totalVotes++
AddVote(poll, i, userId) ==
  [poll EXCEPT !.options[i].votes = @ + 1,
               !.options[i].voters = Append(@, userId),
               !.totalVotes = @ + 1]

\* the response of votePoll and the poll it leaves, in the order of the checks
VoteOutcome(pollId, optionId, userId) ==
  IF pollId \notin DOMAIN eventPolls
  THEN [status |-> 404, message |-> "Poll not found"]
  ELSE LET poll == pollObjs[eventPolls[pollId]]
       IN IF NotActive(poll)
          THEN [status |-> 400, message |-> "Poll is not active"]
          ELSE IF poll.shape = "text" /\ Len(poll.options) > 0
          THEN [status |-> 500, message |-> "Failed to vote"]
          ELSE IF HasVoted(poll, userId)
          THEN [status |-> 400, message |-> "User already voted"]
          ELSE IF FindOption(poll, optionId) = 0
          THEN [status |-> 400, message |-> "Invalid option"]
          ELSE [status |-> 200, message |-> "poll"]

votePoll(pollId, optionId, userId) ==
  /\ ~crashed
  /\ last' = "votePoll"
  /\ actor' = NoConn
  /\ out' = <<>>
  /\ res' = VoteOutcome(pollId, optionId, userId)
  /\ IF res'.status = 200
     THEN LET ref == eventPolls[pollId]
          IN pollObjs' = [pollObjs EXCEPT
               ![ref] = AddVote(@, FindOption(@, optionId), userId)]
     ELSE UNCHANGED pollObjs
  /\ UNCHANGED <<approved, now, crashed, connVars, events, eventPolls, timers, roomVars>>

\* ----------------------------------------------- server.js: event polls
\* the options a client sends with event-start-poll: plain texts, or the
\* option objects of a poll as createPoll returns it
PayloadOptions(shape, n) ==
  IF shape = "object" THEN NewOptions(n) ELSE [i \in 1..n |-> [text |-> i]]

\* { ...poll, id: `POLL-${Date.now()}`, eventId, status: 'active', votes: {} }
PollWithId(pollId, e, shape, n, d) ==
  [id |-> pollId, eventId |-> e, src |-> "event-start-poll", shape |-> shape,
   options |-> PayloadOptions(shape, n), duration |-> d, status |-> "active",
   totalVotes |-> 0, hasVotes |-> TRUE, votes |-> EmptyMap]

eventStartPoll(c, e, shape, n, d) ==
  /\ ~crashed
  /\ c \in connected
  /\ Len(pollObjs) < MaxPolls
  /\ now <= MaxTime
  /\ last' = "event-start-poll"
  /\ actor' = c
  /\ res' = NoRes
  /\ IF e \in DOMAIN events
     THEN LET ref == Len(pollObjs) + 1
              pollId == NewPollId
          IN /\ pollObjs' = Append(pollObjs, PollWithId(pollId, e, shape, n, d))
             /\ eventPolls' = MapSet(eventPolls, pollId, ref)
             /\ events' = [events EXCEPT ![e].polls = Append(@, ref)]
             /\ timers' = timers \cup
                  {Timer(ref, pollId, e, d, "event-start-poll", c)}
             /\ out' = SocketTo(c, e, "event-poll-started", pollId)
     ELSE /\ out' = <<>>
          /\ UNCHANGED <<events, pollVars>>
  /\ UNCHANGED <<approved, now, crashed, connVars, roomVars>>

\* !poll.votes[userId]: no entry, or an entry that is falsy (option id 0)
NoVoteYet(poll, userId) ==
  userId \notin DOMAIN poll.votes \/ poll.votes[userId] = 0

\* poll.votes[userId] = optionId
RecordVote(poll, optionId, userId) ==
  [poll EXCEPT !.votes = MapSet(@, userId, optionId)]

eventVotePoll(c, pollId, optionId, userId) ==
  /\ ~crashed
  /\ c \in connected
  /\ last' = "event-vote-poll"
  /\ actor' = c
  /\ res' = NoRes
  /\ IF pollId \in DOMAIN eventPolls /\ ~NotActive(pollObjs[eventPolls[pollId]])
     THEN LET ref == eventPolls[pollId]
              poll == pollObjs[ref]
          IN IF ~poll.hasVotes
             THEN \* poll.votes is undefined: TypeError out of the handler
                  /\ crashed' = TRUE
                  /\ out' = <<>>
                  /\ UNCHANGED pollObjs
             ELSE IF NoVoteYet(poll, userId)
             THEN /\ pollObjs' = [pollObjs EXCEPT
                       ![ref] = RecordVote(@, optionId, userId)]
                  /\ out' = IF poll.eventId \in DOMAIN events
                            THEN SocketTo(c, poll.eventId, "event-poll-vote",
                                   [pollId |-> pollId, optionId |-> optionId,
                                    userId |-> userId])
                            ELSE <<>>
                  /\ UNCHANGED crashed
             ELSE /\ out' = <<>>
                  /\ UNCHANGED <<crashed, pollObjs>>
     ELSE /\ out' = <<>>
          /\ UNCHANGED <<crashed, pollObjs>>
  /\ UNCHANGED <<approved, now, connVars, events, eventPolls, timers, roomVars>>

\* pollToClose && pollToClose.status === 'active'
ShouldClose(pollId) ==
  pollId \in DOMAIN eventPolls /\ pollObjs[eventPolls[pollId]].status = "active"

\* the setTimeout callback of createPoll (part_001:156-161) and of
\* event-start-poll (server.js:592-598); it looks the poll up by id
pollTimer(tm) ==
  /\ ~crashed
  /\ tm \in timers
  /\ now >= tm.at
  /\ timers' = timers \ {tm}
  /\ last' = "timer"
  /\ actor' = NoConn
  /\ res' = NoRes
  /\ IF ShouldClose(tm.pollId)
     THEN /\ pollObjs' = [pollObjs EXCEPT ![eventPolls[tm.pollId]].status = "closed"]
          /\ out' = IF tm.src = "event-start-poll"
                    THEN SocketTo(tm.sock, tm.eventId, "event-poll-ended", tm.pollId)
                    ELSE <<>>
     ELSE /\ out' = <<>>
          /\ UNCHANGED pollObjs
  /\ UNCHANGED <<approved, now, crashed, connVars, events, eventPolls, roomVars>>

\* ------------------------------------------- server.js: room handlers
IsEvent_Never(roomId) == FALSE

\* roomId.startsWith('GAME-') / roomId.startsWith('EVENT-')
IsGame(roomId) == roomId \in GameIds

IsEvent(roomId) == roomId \in EventIds

\* startedAt: null is the empty set, a date the set of its instant

\* the roomData of a new gaming room (server.js:87-94)
NewGamingRoom(c) ==
  [hostSocketId |-> c, participants |-> <<>>, messages |-> <<>>, type |-> "gaming"]

\* the roomData of a teaching room (server.js:110-120); hostActive is not set
\* at creation and reads as true until it is set to false; ord is the room's
\* place in the Map's insertion order
NewSession(c, ord) ==
  [hostSocketId |-> c, students |-> <<>>, messages |-> <<>>, hostActive |-> TRUE,
   ord |-> ord, type |-> "teaching"]

\* Map.set keeps the place of a key that is already there
OrdOf(roomId) ==
  IF roomId \in DOMAIN teachingSessions
  THEN teachingSessions[roomId].ord
  ELSE Cardinality(DOMAIN teachingSessions) + 1

\* WebRTCHandler 'create-room' (part_004:43-56)
RtcCreateRoom(c, roomId) ==
  MapSet(rooms, roomId, [hostId |-> c, students |-> {}])

\* 'create-room', gaming branch (server.js:79-97)
CreateGamingRoom(c, roomId) ==
  IF roomId \in DOMAIN gamingRooms
  THEN [gamingRooms EXCEPT ![roomId].hostSocketId = c]
  ELSE MapSet(gamingRooms, roomId, NewGamingRoom(c))

\* 'create-room', event branch (server.js:98-108)
ActivateEvent(c, roomId) ==
  IF roomId \in DOMAIN events
  THEN [events EXCEPT ![roomId].hostSocketId = c,
                      ![roomId].status = "active",
                      ![roomId].startedAt = {now}]
  ELSE events

\* 'create-room', teaching branch (server.js:109-122)
CreateSession(c, roomId) ==
  MapSet(teachingSessions, roomId, NewSession(c, OrdOf(roomId)))

\* both 'create-room' listeners of the socket run, WebRTCHandler's first
createRoom(c, roomId) ==
  /\ ~crashed
  /\ c \in connected
  /\ last' = "create-room"
  /\ actor' = c
  /\ res' = NoRes
  /\ rooms' = RtcCreateRoom(c, roomId)
  /\ sockRooms' = Join(sockRooms, c, roomId)
  /\ gamingRooms' = IF IsGame(roomId) THEN CreateGamingRoom(c, roomId) ELSE gamingRooms
  /\ events' = IF IsEvent(roomId) THEN ActivateEvent(c, roomId) ELSE events
  /\ teachingSessions' = IF ~IsGame(roomId) /\ ~IsEvent(roomId)
                         THEN CreateSession(c, roomId)
                         ELSE teachingSessions
  /\ out' = SocketEmit(c, "room-created", [roomId |-> roomId, hostId |-> c])
            \o SocketEmit(c, "room-created", [roomId |-> roomId, success |-> TRUE])
  /\ UNCHANGED <<approved, now, crashed, connected, closedConns, pollVars>>

EventJoinable_AnyStatus(roomId) == roomId \in DOMAIN events

\* event && event.status === 'active'
EventJoinable(roomId) ==
  roomId \in DOMAIN events /\ events[roomId].status = "active"

\* 'join-room-old', event branch (server.js:185-226)
JoinEvent(c, roomId, name) ==
  IF EventJoinable(roomId)
  THEN LET attendee == [id |-> c, name |-> name]
           sr == Join(sockRooms, c, roomId)
       IN /\ Len(events[roomId].attendees) < MaxMembers
          /\ sockRooms' = sr
          /\ events' = [events EXCEPT ![roomId].attendees = Append(@, attendee)]
          /\ out' = Fanout(Members(connected, sr, roomId), "attendee-joined", attendee)
                    \o SocketEmit(c, "event-joined",
                         [eventId |-> roomId, title |-> events[roomId].title,
                          attendees |-> events'[roomId].attendees])
  ELSE /\ out' = SocketEmit(c, "event-not-found", [roomId |-> roomId])
       /\ UNCHANGED <<sockRooms, events>>

AddParticipant_AlwaysPush(participants, c, name) ==
  Append(participants, [id |-> c, name |-> name])

\* the participants after a join under display name `name` (server.js:244-250)
AddParticipant(participants, c, name) ==
  LET participant == [id |-> c, name |-> name]
      existingIndex ==
        FindIndex({i \in 1..Len(participants) : participants[i].name = name})
  IN IF existingIndex # 0
     THEN [participants EXCEPT ![existingIndex] = participant]
     ELSE Append(participants, participant)

\* 'join-room-old', gaming branch (server.js:227-267)
JoinGame(c, roomId, name) ==
  IF roomId \in DOMAIN gamingRooms
  THEN LET sr == Join(sockRooms, c, roomId)
           ps == AddParticipant(gamingRooms[roomId].participants, c, name)
       IN /\ sockRooms' = sr
          /\ gamingRooms' = [gamingRooms EXCEPT ![roomId].participants = ps]
          /\ out' = Fanout(Members(connected, sr, roomId) \ {c}, "user-connected", c)
                    \o SocketEmit(c, "room-joined",
                         [roomId |-> roomId,
                          hostId |-> gamingRooms[roomId].hostSocketId,
                          participants |-> SelectSeq(ps, LAMBDA p : p.id # c)])
  ELSE /\ out' = SocketEmit(c, "room-not-found", [roomId |-> roomId])
       /\ UNCHANGED <<sockRooms, gamingRooms>>

RequestJoin_Broadcast(c, roomId) ==
  out' = IoTo(roomId, "join-request", [id |-> c, roomId |-> roomId])
         \o SocketEmit(c, "join-pending", [roomId |-> roomId])

\* 'join-room-old', teaching branch (server.js:268-292)
RequestJoin(c, roomId) ==
  IF roomId \in DOMAIN teachingSessions
  THEN out' = IoToSocket(teachingSessions[roomId].hostSocketId, "join-request",
                         [id |-> c, roomId |-> roomId])
              \o SocketEmit(c, "join-pending", [roomId |-> roomId])
  ELSE out' = SocketEmit(c, "room-not-found", [roomId |-> roomId])

joinRoomOld(c, roomId, name) ==
  /\ ~crashed
  /\ c \in connected
  /\ last' = "join-room-old"
  /\ actor' = c
  /\ res' = NoRes
  /\ IF IsEvent(roomId)
     THEN JoinEvent(c, roomId, name) /\ UNCHANGED gamingRooms
     ELSE IF IsGame(roomId)
     THEN JoinGame(c, roomId, name) /\ UNCHANGED events
     ELSE RequestJoin(c, roomId) /\ UNCHANGED <<sockRooms, events, gamingRooms>>
  /\ UNCHANGED <<approved, now, crashed, connected, closedConns, pollVars, teachingSessions, rooms>>

\* WebRTCHandler 'join-room' (part_004:58-96); with a string as first argument
\* the destructured roomId is undefined and no room is found
RtcKnown(roomId, shape) == shape = "object" /\ roomId \in DOMAIN rooms

RtcJoinRoom(c, roomId, shape) ==
  IF RtcKnown(roomId, shape)
  THEN [rooms EXCEPT ![roomId].students = @ \cup {c}]
  ELSE rooms

RtcJoinOut(c, roomId, shape, sr) ==
  IF RtcKnown(roomId, shape)
  THEN SocketEmit(c, "room-joined",
         [roomId |-> roomId, hostId |-> rooms[roomId].hostId,
          students |-> rooms[roomId].students \cup {c}])
       \o Fanout(Members(connected, sr, roomId) \ {c}, "user-joined-webrtc", c)
       \o IoToSocket(rooms[roomId].hostId, "student-joined", c)
  ELSE SocketEmit(c, "room-not-found", <<>>)

\* server.js 'join-room' (129-158): the first argument is joined as it comes
ActualRoomId(c, roomId, shape) == IF shape = "string" THEN roomId ELSE ObjectRoom[c]

\* both 'join-room' listeners of the socket run, WebRTCHandler's first
joinRoom(c, roomId, shape) ==
  /\ ~crashed
  /\ c \in connected
  /\ last' = "join-room"
  /\ actor' = c
  /\ res' = NoRes
  /\ LET sr1 == IF RtcKnown(roomId, shape) THEN Join(sockRooms, c, roomId)
                ELSE sockRooms
         actual == ActualRoomId(c, roomId, shape)
         sr2 == Join(sr1, c, actual)
     IN /\ rooms' = RtcJoinRoom(c, roomId, shape)
        /\ sockRooms' = sr2
        /\ out' = RtcJoinOut(c, roomId, shape, sr1)
                  \o Fanout(Members(connected, sr2, actual) \ {c}, "user-connected", c)
                  \o SocketEmit(c, "room-joined",
                       [roomId |-> actual, success |-> TRUE,
                        memberCount |-> Cardinality(Members(connected, sr2, actual))])
  /\ UNCHANGED <<approved, now, crashed, connected, closedConns, events, pollVars,
                 teachingSessions, gamingRooms>>

\* 'send-message' (server.js:469-483)
sendMessage(c, roomId, message) ==
  /\ ~crashed
  /\ c \in connected
  /\ last' = "send-message"
  /\ actor' = c
  /\ res' = NoRes
  /\ IF roomId \in DOMAIN gamingRooms
     THEN /\ Len(gamingRooms[roomId].messages) < MaxMessages
          /\ gamingRooms' = [gamingRooms EXCEPT ![roomId].messages = Append(@, message)]
          /\ UNCHANGED teachingSessions
     ELSE IF roomId \in DOMAIN teachingSessions
     THEN /\ Len(teachingSessions[roomId].messages) < MaxMessages
          /\ teachingSessions' =
               [teachingSessions EXCEPT ![roomId].messages = Append(@, message)]
          /\ UNCHANGED gamingRooms
     ELSE UNCHANGED <<teachingSessions, gamingRooms>>
  /\ out' = IoTo(roomId, "message", message)
  /\ UNCHANGED <<approved, now, crashed, connVars, events, pollVars, rooms>>

\* 'approve-join' (server.js:295-305)
approveJoin(c, requestId, roomId) ==
  /\ ~crashed
  /\ c \in connected
  /\ last' = "approve-join"
  /\ actor' = c
  /\ res' = NoRes
  /\ out' = IF roomId \in DOMAIN teachingSessions
            THEN IoToSocket(requestId, "join-approved",
                   [roomId |-> roomId, hostId |-> teachingSessions[roomId].hostSocketId])
            ELSE <<>>
  /\ approved' = IF roomId \in DOMAIN teachingSessions
                     /\ teachingSessions[roomId].hostSocketId = c
                  THEN approved \cup {<<requestId, roomId>>}
                  ELSE approved
  /\ UNCHANGED <<now, crashed, connVars, events, pollVars, roomVars>>

\* 'reject-join' (server.js:307-310)
rejectJoin(c, requestId, roomId) ==
  /\ ~crashed
  /\ c \in connected
  /\ last' = "reject-join"
  /\ actor' = c
  /\ res' = NoRes
  /\ out' = IoToSocket(requestId, "join-rejected",
                       [roomId |-> roomId, reason |-> "Teacher declined your request"])
  /\ UNCHANGED <<approved, now, crashed, connVars, events, pollVars, roomVars>>

\* session.students.findIndex(s => s.id === student.id || s.socketId === socket.id)
ExistingStudent(students, c, sid) ==
  FindIndex({i \in 1..Len(students) :
               students[i].id = sid \/ students[i].socketId = c})

\* the students after a confirm-join (server.js:318-335)
ConfirmStudent(students, c, sid) ==
  LET existingIndex == ExistingStudent(students, c, sid)
  IN IF existingIndex # 0
     THEN [students EXCEPT ![existingIndex].socketId = c]
     ELSE Append(students, [id |-> sid, socketId |-> c])

\* 'confirm-join' (server.js:312-348)
confirmJoin(c, roomId, sid) ==
  /\ ~crashed
  /\ c \in connected
  /\ last' = "confirm-join"
  /\ actor' = c
  /\ res' = NoRes
  /\ IF roomId \in DOMAIN teachingSessions
     THEN LET session == teachingSessions[roomId]
              existingIndex == ExistingStudent(session.students, c, sid)
              students == ConfirmStudent(session.students, c, sid)
              sr == Join(sockRooms, c, roomId)
              joined == SocketEmit(c, "room-joined",
                          [roomId |-> roomId, hostId |-> session.hostSocketId,
                           students |-> students])
          IN /\ teachingSessions' = [teachingSessions EXCEPT ![roomId].students = students]
             /\ sockRooms' = sr
             /\ out' = IF existingIndex # 0
                       THEN joined
                       ELSE Fanout(Members(connected, sr, roomId) \ {c},
                                   "student-joined", [id |-> sid, socketId |-> c])
                            \o joined
     ELSE /\ out' = <<>>
          /\ UNCHANGED <<teachingSessions, sockRooms>>
  /\ UNCHANGED <<approved, now, crashed, connected, closedConns, events, pollVars, gamingRooms,
                 rooms>>

ChatOpen_NoGate(eventId) == eventId \in DOMAIN events

\* event && event.settings.chatEnabled (server.js:577)
ChatOpen(eventId) == eventId \in DOMAIN events /\ events[eventId].chatEnabled

\* 'event-toggle-chat' (server.js:567-573)
eventToggleChat(c, eventId, enabled) ==
  /\ ~crashed
  /\ c \in connected
  /\ last' = "event-toggle-chat"
  /\ actor' = c
  /\ res' = NoRes
  /\ IF eventId \in DOMAIN events
     THEN /\ events' = [events EXCEPT ![eventId].chatEnabled = enabled]
          /\ out' = SocketTo(c, eventId, "event-chat-toggled", enabled)
     ELSE /\ out' = <<>>
          /\ UNCHANGED events
  /\ UNCHANGED <<approved, now, crashed, connVars, pollVars, roomVars>>

\* 'event-send-message' (server.js:575-581)
eventSendMessage(c, eventId, message) ==
  /\ ~crashed
  /\ c \in connected
  /\ last' = "event-send-message"
  /\ actor' = c
  /\ res' = NoRes
  /\ IF ChatOpen(eventId)
     THEN /\ Len(events[eventId].messages) < MaxMessages
          /\ events' = [events EXCEPT ![eventId].messages = Append(@, message)]
          /\ out' = IoTo(eventId, "event-message", message)
     ELSE /\ out' = <<>>
          /\ UNCHANGED events
  /\ UNCHANGED <<approved, now, crashed, connVars, pollVars, roomVars>>

\* 'event-end' (server.js:623-630)
eventEnd(c, eventId) ==
  /\ ~crashed
  /\ c \in connected
  /\ last' = "event-end"
  /\ actor' = c
  /\ res' = NoRes
  /\ IF eventId \in DOMAIN events
     THEN /\ events' = [events EXCEPT ![eventId].status = "ended"]
          /\ out' = SocketTo(c, eventId, "event-ended", eventId)
     ELSE /\ out' = <<>>
          /\ UNCHANGED events
  /\ UNCHANGED <<approved, now, crashed, connVars, pollVars, roomVars>>

\* ------------------------------------------------------ signaling relay
\* the target a client names: io.to(x) takes x for a room name; a socket's own
\* id names the room that holds it alone, any other string names a room
\* sockets joined
TargetOfConn(c) == [kind |-> "conn", conn |-> c, room |-> ""]

TargetOfRoom(r) == [kind |-> "room", conn |-> NoConn, room |-> r]

RoomSockets(target) ==
  IF target.kind = "conn" THEN {target.conn} \cap connected ELSE InRoom(target.room)

\* 'offer', 'answer', 'ice-candidate' (server.js:161-177), 'webrtc-signal'
\* (server.js:66-72), 'webrtc-offer', 'webrtc-answer', 'webrtc-ice-candidate'
\* (part_004:15-40): io.to(target).emit(ev, payload, socket.id)
relay(c, ev, target, payload) ==
  /\ ~crashed
  /\ c \in connected
  /\ last' = ev
  /\ actor' = c
  /\ res' = NoRes
  /\ out' = Fanout(RoomSockets(target), ev, [payload |-> payload, from |-> c])
  /\ UNCHANGED <<approved, now, crashed, connVars, events, pollVars, roomVars>>

\* ------------------------------------------------ leaving, ending a session
\* 'screen-share-started' / 'screen-share-stopped': WebRTCHandler's listener
\* (part_004:99-115) and then server.js's (503-519) both relay the event
screenShare(c, roomId, ev, userId) ==
  /\ ~crashed
  /\ c \in connected
  /\ last' = ev
  /\ actor' = c
  /\ res' = NoRes
  /\ out' = SocketTo(c, roomId, ev, [userId |-> userId, fromUserId |-> c])
            \o SocketTo(c, roomId, ev,
                        [userId |-> userId, fromUserId |-> c, timestamp |-> now])
  /\ UNCHANGED <<approved, now, crashed, connVars, events, pollVars, roomVars>>

IsRoomHost_Anyone(roomId, c) == TRUE

\* room.hostId === socketId (part_004:155)
IsRoomHost(roomId, c) == rooms[roomId].hostId = c

\* 'leave-room' (part_004:123-127), handleUserLeaveRoom (part_004:151-167);
\* the socket stays in the socket room
leaveRoom(c, roomId) ==
  /\ ~crashed
  /\ c \in connected
  /\ last' = "leave-room"
  /\ actor' = c
  /\ res' = NoRes
  /\ IF roomId \notin DOMAIN rooms
     THEN /\ out' = <<>>
          /\ UNCHANGED rooms
     ELSE IF IsRoomHost(roomId, c)
     THEN /\ out' = IoTo(roomId, "session-ended", <<>>)
          /\ rooms' = [r \in DOMAIN rooms \ {roomId} |-> rooms[r]]
     ELSE IF c \in rooms[roomId].students
     THEN /\ rooms' = [rooms EXCEPT ![roomId].students = @ \ {c}]
          /\ out' = IoTo(roomId, "user-left-webrtc", c)
                    \o IoToSocket(rooms[roomId].hostId, "student-left", c)
     ELSE /\ out' = <<>>
          /\ UNCHANGED rooms
  /\ UNCHANGED <<approved, now, crashed, connVars, events, pollVars, teachingSessions,
                 gamingRooms>>

\* 'end-session' (server.js:551-553)
endSession(c, roomId) ==
  /\ ~crashed
  /\ c \in connected
  /\ last' = "end-session"
  /\ actor' = c
  /\ res' = NoRes
  /\ out' = SocketTo(c, roomId, "session-ended", <<>>)
  /\ UNCHANGED <<approved, now, crashed, connVars, events, pollVars, roomVars>>

\* ------------------------------------------------------ connection loss
\* the messages g[x] of every x of S, in one fixed order
RECURSIVE ForEach(_, _)
ForEach(S, g) ==
  IF S = {} THEN <<>>
  ELSE LET x == CHOOSE y \in S : TRUE IN g[x] \o ForEach(S \ {x}, g)

\* 'disconnecting' (server.js:378-389): the socket is still in its rooms;
\* rooms[0] is its own id, rooms[1] the room it joined first
Disconnecting(c) ==
  IF Len(sockRooms[c]) > 0
  THEN SocketTo(c, sockRooms[c][1], "user-disconnected", c)
  ELSE <<>>

\* WebRTCHandler.handleUserDisconnect (part_004:131-149): the rooms it leaves
RtcAfterDisconnect(c) ==
  LET kept == {r \in DOMAIN rooms : rooms[r].hostId # c}
  IN [r \in kept |-> [rooms[r] EXCEPT !.students = @ \ {c}]]

\* WebRTCHandler.handleUserDisconnect: what it emits, the socket having left
RtcDisconnectOut(c, live, sr) ==
  ForEach(DOMAIN rooms, [r \in DOMAIN rooms |->
    IF rooms[r].hostId = c
    THEN Fanout(Members(live, sr, r), "host-disconnected", r)
    ELSE IF c \in rooms[r].students
    THEN Fanout(Members(live, sr, r), "user-left-webrtc", c)
         \o (IF rooms[r].hostId \in live
             THEN SocketEmit(rooms[r].hostId, "student-left", c)
             ELSE <<>>)
    ELSE <<>>])

\* teachingSessions.forEach(...): the last room, in insertion order, whose host
\* socket is c (server.js:395-400); "" when there is none
HostRoomId(c) ==
  LET hosted == {r \in DOMAIN teachingSessions : teachingSessions[r].hostSocketId = c}
  IN IF hosted = {} THEN ""
     ELSE CHOOSE r \in hosted :
            \A q \in hosted : teachingSessions[q].ord <= teachingSessions[r].ord

\* session.students.splice(studentIndex, 1)
RemoveAt(s, i) == [j \in 1..(Len(s) - 1) |-> IF j < i THEN s[j] ELSE s[j + 1]]

StudentIndex(session, c) ==
  FindIndex({i \in 1..Len(session.students) : session.students[i].socketId = c})

\* 'disconnect' (server.js:391-422): the sessions it leaves
SessionsAfterDisconnect(c) ==
  IF HostRoomId(c) # ""
  THEN [teachingSessions EXCEPT ![HostRoomId(c)].hostActive = FALSE]
  ELSE [r \in DOMAIN teachingSessions |->
          IF StudentIndex(teachingSessions[r], c) # 0
          THEN [teachingSessions[r] EXCEPT
                  !.students = RemoveAt(@, StudentIndex(teachingSessions[r], c))]
          ELSE teachingSessions[r]]

\* 'disconnect' (server.js:391-422): what it emits
SessionDisconnectOut(c, live, sr) ==
  IF HostRoomId(c) # ""
  THEN <<>>
  ELSE ForEach(DOMAIN teachingSessions, [r \in DOMAIN teachingSessions |->
         IF StudentIndex(teachingSessions[r], c) # 0
         THEN Fanout(Members(live, sr, r) \ {c}, "student-left",
                teachingSessions[r].students[StudentIndex(teachingSessions[r], c)].id)
         ELSE <<>>])

\* a connection is lost: 'disconnecting', the socket leaves its rooms, then the
\* 'disconnect' listeners run, WebRTCHandler's first
disconnect(c) ==
  /\ ~crashed
  /\ c \in connected
  /\ last' = "disconnect"
  /\ actor' = c
  /\ res' = NoRes
  /\ connected' = connected \ {c}
  /\ closedConns' = closedConns \cup {c}
  /\ sockRooms' = [sockRooms EXCEPT ![c] = <<>>]
  /\ rooms' = RtcAfterDisconnect(c)
  /\ teachingSessions' = SessionsAfterDisconnect(c)
  /\ out' = Disconnecting(c)
            \o RtcDisconnectOut(c, connected', sockRooms')
            \o SessionDisconnectOut(c, connected', sockRooms')
  /\ UNCHANGED <<approved, now, crashed, events, pollVars, gamingRooms>>

\* ------------------------------------------------------- specifications
PollInputs == DOMAIN eventPolls \cup UnknownPollIds

PollConnIds == {1}

NextPoll ==
  \/ Tick
  \/ \E c \in PollConnIds : Connection(c)
  \/ \E e \in EventIds : createEvent(e)
  \/ \E e \in EventIds, n \in OptionCounts, d \in Durations : createPoll(e, n, d)
  \/ \E p \in PollInputs, o \in OptionInputs, u \in UserIds : votePoll(p, o, u)
  \/ \E c \in PollConnIds, e \in EventIds, sh \in PayloadShapes, n \in OptionCounts,
        d \in Durations : eventStartPoll(c, e, sh, n, d)
  \/ \E c \in PollConnIds, p \in PollInputs, o \in OptionInputs, u \in UserIds :
        eventVotePoll(c, p, o, u)
  \/ \E tm \in timers : pollTimer(tm)

SpecPoll == Init /\ [][NextPoll]_vars

\* gaming rooms: create, join, host and member loss
NextGaming ==
  \/ \E c \in ConnIds : Connection(c)
  \/ \E c \in ConnIds, r \in GameIds : createRoom(c, r)
  \/ \E c \in ConnIds, r \in GameIds, n \in Names : joinRoomOld(c, r, n)
  \/ \E c \in ConnIds : disconnect(c)

SpecGaming == Init /\ [][NextGaming]_vars

TeachingConnIds == {1, 2}

\* the join requests a host is seen to approve: those of one connection for
\* one room
RequestConnIds == {2}

RequestRoomIds == {"T1"}

\* teaching rooms: create, the three steps of a join, host and student loss
NextTeaching ==
  \/ \E c \in TeachingConnIds : Connection(c)
  \/ \E c \in TeachingConnIds, r \in TeachIds : createRoom(c, r)
  \/ \E c \in TeachingConnIds, r \in TeachIds, n \in {"A"} : joinRoomOld(c, r, n)
  \/ \E c \in TeachingConnIds, q \in RequestConnIds, r \in RequestRoomIds :
        approveJoin(c, q, r)
  \/ \E c \in TeachingConnIds, q \in TeachingConnIds, r \in TeachIds : rejectJoin(c, q, r)
  \/ \E c \in TeachingConnIds, r \in TeachIds, sid \in StudentIds : confirmJoin(c, r, sid)
  \/ \E c \in TeachingConnIds : disconnect(c)

SpecTeaching == Init /\ [][NextTeaching]_vars

\* event rooms: create, activate, join, end, connection loss
NextEvent ==
  \/ \E c \in ConnIds : Connection(c)
  \/ \E e \in EventIds : createEvent(e)
  \/ \E c \in ConnIds, r \in EventIds : createRoom(c, r)
  \/ \E c \in ConnIds, r \in EventIds, n \in Names : joinRoomOld(c, r, n)
  \/ \E c \in ConnIds, r \in EventIds : eventEnd(c, r)
  \/ \E c \in ConnIds : disconnect(c)

SpecEvent == Init /\ [][NextEvent]_vars

ChatConnIds == {1, 2}

\* event chat: activate, join, switch the chat on and off, send
NextChat ==
  \/ \E c \in ChatConnIds : Connection(c)
  \/ \E e \in EventIds : createEvent(e)
  \/ \E c \in ChatConnIds, r \in EventIds : createRoom(c, r)
  \/ \E c \in ChatConnIds, r \in EventIds, n \in {"A"} : joinRoomOld(c, r, n)
  \/ \E c \in ChatConnIds, e \in EventIds, b \in BOOLEAN : eventToggleChat(c, e, b)
  \/ \E c \in ChatConnIds, e \in EventIds, m \in Messages : eventSendMessage(c, e, m)

SpecChat == Init /\ [][NextChat]_vars

RelayTargets ==
  {TargetOfConn(c) : c \in ConnIds} \cup {TargetOfRoom(r) : r \in GameIds}

\* signaling between the sockets of a gaming room
NextRelay ==
  \/ \E c \in ConnIds : Connection(c)
  \/ \E c \in ConnIds, r \in GameIds : createRoom(c, r)
  \/ \E c \in ConnIds, r \in GameIds, n \in {"A"} : joinRoomOld(c, r, n)
  \/ \E c \in ConnIds, ev \in RelayEvents, t \in RelayTargets, p \in Payloads :
        relay(c, ev, t, p)
  \/ \E c \in ConnIds : disconnect(c)

SpecRelay == Init /\ [][NextRelay]_vars

RoomConnIds == {1, 2}

JoinRoomIds == GameIds \cup {"T1"}

\* the two join events on a gaming and a teaching room id
NextJoin ==
  \/ \E c \in RoomConnIds : Connection(c)
  \/ \E c \in RoomConnIds, r \in JoinRoomIds : createRoom(c, r)
  \/ \E c \in RoomConnIds, r \in JoinRoomIds, sh \in JoinShapes : joinRoom(c, r, sh)
  \/ \E c \in RoomConnIds, r \in JoinRoomIds, n \in {"A"} : joinRoomOld(c, r, n)
  \/ \E c \in RoomConnIds : disconnect(c)

SpecJoin == Init /\ [][NextJoin]_vars

\* the connection that creates rooms and the one that joins them
HostConnIds == {1}

GuestConnIds == {2}

RoomIds == EventIds \cup GameIds \cup {"T1"}

\* rooms of the three kinds side by side: create, join, message, poll,
\* connection loss
NextRooms ==
  \/ \E c \in RoomConnIds : Connection(c)
  \/ \E e \in EventIds : createEvent(e)
  \/ \E c \in HostConnIds, r \in RoomIds : createRoom(c, r)
  \/ \E c \in GuestConnIds, r \in RoomIds, n \in {"A"} : joinRoomOld(c, r, n)
  \/ \E c \in GuestConnIds, r \in RoomIds, m \in {"m1"} : sendMessage(c, r, m)
  \/ \E c \in GuestConnIds, e \in EventIds, sh \in PayloadShapes, n \in OptionCounts :
        eventStartPoll(c, e, sh, n, 0)
  \/ \E c \in RoomConnIds : disconnect(c)

SpecRooms == Init /\ [][NextRooms]_vars

\* polls of both entry points and their timers in an event room with members
ExpiryConnIds == {1, 2}

NextExpiry ==
  \/ Tick
  \/ \E c \in ExpiryConnIds : Connection(c)
  \/ \E e \in EventIds : createEvent(e)
  \/ \E c \in {1}, r \in EventIds : createRoom(c, r)
  \/ \E c \in {2}, r \in EventIds, n \in {"A"} : joinRoomOld(c, r, n)
  \/ \E e \in EventIds, n \in OptionCounts, d \in Durations : createPoll(e, n, d)
  \/ \E c \in ExpiryConnIds, e \in EventIds, sh \in PayloadShapes, n \in OptionCounts,
        d \in Durations : eventStartPoll(c, e, sh, n, d)
  \/ \E tm \in timers : pollTimer(tm)

SpecExpiry == Init /\ [][NextExpiry]_vars

ShareEvents == {"screen-share-started", "screen-share-stopped"}

ShareRoomIds == GameIds \cup {"T1"}

\* room fan-out: messages, screen sharing and joins in a gaming and a teaching room
NextShare ==
  \/ \E c \in RoomConnIds : Connection(c)
  \/ \E c \in RoomConnIds, r \in ShareRoomIds : createRoom(c, r)
  \/ \E c \in RoomConnIds, r \in ShareRoomIds, n \in {"A"} : joinRoomOld(c, r, n)
  \/ \E c \in RoomConnIds, r \in ShareRoomIds, sid \in {"s1"} : confirmJoin(c, r, sid)
  \/ \E c \in RoomConnIds, r \in ShareRoomIds, m \in {"m1"} : sendMessage(c, r, m)
  \/ \E c \in RoomConnIds, r \in ShareRoomIds, ev \in ShareEvents, u \in {"u1"} :
        screenShare(c, r, ev, u)

SpecShare == Init /\ [][NextShare]_vars

LeaveRoomIds == {"T1"}

\* a teaching room from creation to its end: create, join, confirm, message,
\* leave, end, connection loss
NextLeave ==
  \/ \E c \in RoomConnIds : Connection(c)
  \/ \E c \in RoomConnIds, r \in LeaveRoomIds : createRoom(c, r)
  \/ \E c \in RoomConnIds, r \in LeaveRoomIds, sh \in JoinShapes : joinRoom(c, r, sh)
  \/ \E c \in RoomConnIds, r \in LeaveRoomIds, n \in {"A"} : joinRoomOld(c, r, n)
  \/ \E c \in RoomConnIds, r \in LeaveRoomIds, sid \in {"s1"} : confirmJoin(c, r, sid)
  \/ \E c \in RoomConnIds, r \in LeaveRoomIds, m \in {"m1"} : sendMessage(c, r, m)
  \/ \E c \in RoomConnIds, r \in LeaveRoomIds : leaveRoom(c, r)
  \/ \E c \in RoomConnIds, r \in LeaveRoomIds : endSession(c, r)
  \/ \E c \in RoomConnIds : disconnect(c)

SpecLeave == Init /\ [][NextLeave]_vars

\* ---------------------------------------------------------------- claims
PollRefs == 1..Len(pollObjs)

\* the polls whose options carry vote counts and voter lists
Counted(poll) == poll.shape = "object"

RECURSIVE SumVotes(_)
SumVotes(opts) ==
  IF opts = <<>> THEN 0 ELSE Head(opts).votes + SumVotes(Tail(opts))

RECURSIVE AllVoters(_)
AllVoters(opts) ==
  IF opts = <<>> THEN <<>> ELSE Head(opts).voters \o AllVoters(Tail(opts))

NoDuplicates(s) == \A i, j \in 1..Len(s) : s[i] = s[j] => i = j

VotesOf(poll, u) ==
  [voted |-> IF Counted(poll)
             THEN {i \in 1..Len(poll.options) :
                     \E j \in 1..Len(poll.options[i].voters) :
                        poll.options[i].voters[j] = u}
             ELSE {},
   entry |-> IF u \in DOMAIN poll.votes THEN {poll.votes[u]} ELSE {}]

Recorded(poll, u) == VotesOf(poll, u) # [voted |-> {}, entry |-> {}]

\* C2: once a vote of user u on a poll has been recorded, no later step
\* records anything for u on that poll: what the poll holds for u stays as it
\* is (same option or another, index 0 included, on both entry points).
C2_NoSecondVote ==
  [][\A r \in PollRefs, u \in UserIds :
       Recorded(pollObjs[r], u) =>
         VotesOf(pollObjs'[r], u) = VotesOf(pollObjs[r], u)]_vars

IsClosed(pollId) ==
  pollId \in DOMAIN eventPolls /\ pollObjs[eventPolls[pollId]].status = "closed"

\* C3: a vote (votePoll or event-vote-poll, any option, any user) on a poll
\* whose status is closed is rejected and leaves every poll object (option
\* counts, voter lists, totalVotes, votes map) as it was.
C3_ClosedPollRejectsVotes ==
  [][\A p \in DOMAIN eventPolls, o \in OptionInputs, u \in UserIds :
       /\ (IsClosed(p) /\ votePoll(p, o, u)) =>
            /\ pollObjs' = pollObjs
            /\ res' = [status |-> 400, message |-> "Poll is not active"]
       /\ (IsClosed(p) /\ \E c \in ConnIds : eventVotePoll(c, p, o, u)) =>
            /\ pollObjs' = pollObjs
            /\ out' = <<>>
            /\ ~crashed']_vars

\* C3 witness: votePoll has just answered a vote on a closed poll.
C3_Witness ==
  /\ last = "votePoll"
  /\ res = [status |-> 400, message |-> "Poll is not active"]
  /\ \E r \in PollRefs : pollObjs[r].status = "closed" /\ pollObjs[r].totalVotes > 0

\* C4: every created poll is closed once its expiry timer has fired, is not
\* closed before its duration has elapsed since its creation, polls created
\* at the same clock instant included.
C4_EveryPollClosesOnTime ==
  /\ \A r \in PollRefs :
       (\A tm \in timers : tm.ref # r) => pollObjs[r].status = "closed"
  /\ \A r \in PollRefs :
       pollObjs[r].status = "closed" =>
         now >= pollObjs[r].id + DurationOr(pollObjs[r].duration)

\* the messages of `o` named ev that go to socket c
Received(o, c, ev) == {i \in 1..Len(o) : o[i].to = c /\ o[i].ev = ev}

\* C5: when the host connection of a gaming room disconnects, the room is
\* gone from the gaming room registry (so a later join-room-old of that id
\* meets no room) and every remaining live member of the room gets exactly one
\* host-disconnected message.
C5_GamingHostLossDeletesRoom ==
  [][\A c \in ConnIds, r \in GameIds :
       (/\ disconnect(c)
        /\ r \in DOMAIN gamingRooms
        /\ gamingRooms[r].hostSocketId = c) =>
          /\ r \notin DOMAIN gamingRooms'
          /\ \A m \in Range(gamingRooms[r].participants) :
               (m.id \in connected /\ m.id # c) =>
                  Cardinality(Received(out', m.id, "host-disconnected")) = 1]_vars

\* C6: when the host connection of a teaching room disconnects, the room
\* stays in teachingSessions with its student list unchanged and its
\* hostActive flag is false afterwards.
C6_TeachingHostLossKeepsRoom ==
  [][\A c \in ConnIds, r \in TeachIds :
       (/\ disconnect(c)
        /\ r \in DOMAIN teachingSessions
        /\ teachingSessions[r].hostSocketId = c) =>
          /\ r \in DOMAIN teachingSessions'
          /\ teachingSessions'[r].students = teachingSessions[r].students
          /\ teachingSessions'[r].hostActive = FALSE]_vars

IsActiveEvent(r) == r \in DOMAIN events /\ events[r].status = "active"

\* C7: a join of an event room succeeds exactly when the event's status is
\* active: then the attendee is appended and the joiner is sent event-joined
\* with the title; for an event that is created, ended or unknown the attendee
\* list (and every event) is unchanged and the only message is the failure,
\* sent to the joiner.
C7_EventJoinIffActive ==
  [][\A c \in ConnIds, r \in EventIds, n \in Names :
       joinRoomOld(c, r, n) =>
         IF IsActiveEvent(r)
         THEN /\ events'[r].attendees =
                   Append(events[r].attendees, [id |-> c, name |-> n])
              /\ \E i \in Received(out', c, "event-joined") :
                   out'[i].data.title = events[r].title
              /\ Received(out', c, "event-not-found") = {}
         ELSE /\ events' = events
              /\ sockRooms' = sockRooms
              /\ out' = <<[to |-> c, ev |-> "event-not-found",
                           data |-> [roomId |-> r]]>>]_vars

\* C7 witness: an attendee joined while the event was active, and a join of
\* the event after it was ended has just been refused.
C7_Witness ==
  /\ last = "join-room-old"
  /\ \E r \in DOMAIN events :
       /\ events[r].status = "ended"
       /\ Len(events[r].attendees) = 1
       /\ \E i \in 1..Len(out) : out[i].ev = "event-not-found"

DistinctNames(participants) ==
  \A i, j \in 1..Len(participants) :
    participants[i].name = participants[j].name => i = j

\* C8: no gaming room ever holds two participants with the same display
\* name; a join under a name that is present replaces that entry where it
\* stands, with the joining connection's id, and leaves every other entry and
\* the length of the list as they were.
C8_GamingNamesUnique ==
  [][/\ \A r \in DOMAIN gamingRooms' : DistinctNames(gamingRooms'[r].participants)
     /\ \A c \in ConnIds, r \in DOMAIN gamingRooms, n \in Names :
          joinRoomOld(c, r, n) =>
            LET old == gamingRooms[r].participants
                new == gamingRooms'[r].participants
            IN \A i \in 1..Len(old) :
                 /\ Len(new) >= Len(old)
                 /\ IF old[i].name = n
                    THEN Len(new) = Len(old) /\ new[i] = [id |-> c, name |-> n]
                    ELSE new[i] = old[i]]_vars

\* C8 witness: the connection that joined last stands first in a list of two
\* participants: its join replaced an entry in place (a push would have put it
\* last).
C8_Witness ==
  /\ last = "join-room-old"
  /\ \E r \in DOMAIN gamingRooms :
       /\ Len(gamingRooms[r].participants) = 2
       /\ \E i \in 1..Len(out) :
            /\ out[i].ev = "room-joined"
            /\ out[i].to = gamingRooms[r].participants[1].id
            /\ gamingRooms[r].participants[2].id # out[i].to

\* C9: after a confirm-join carrying student id sid, sid is the id of exactly
\* one entry of the room's student list and that entry's connection id is
\* the confirming connection; when sid was listed before, nothing else of the
\* list changes.
C9_ConfirmJoinIdempotent ==
  [][\A c \in ConnIds, r \in TeachIds, sid \in StudentIds :
       (confirmJoin(c, r, sid) /\ r \in DOMAIN teachingSessions) =>
         LET old == teachingSessions[r].students
             new == teachingSessions'[r].students
         IN /\ Cardinality({i \in 1..Len(new) : new[i].id = sid}) = 1
            /\ \A i \in 1..Len(new) : new[i].id = sid => new[i].socketId = c
            /\ (\E i \in 1..Len(old) : old[i].id = sid) =>
                 /\ Len(new) = Len(old)
                 /\ \A i \in 1..Len(old) : new[i].id = old[i].id
                 /\ \A i \in 1..Len(old) :
                      old[i].id # sid => new[i].socketId = old[i].socketId]_vars

\* ids: the connection ids of a member list, in its order
DistinctConns(ids) == \A i, j \in 1..Len(ids) : ids[i] = ids[j] => i = j

\* C10: in every reachable state no member list (event attendees, gaming
\* participants, teaching students) holds two entries with the same
\* connection id.
C10_NoDuplicateConnectionIds ==
  /\ \A r \in DOMAIN events :
       DistinctConns([i \in 1..Len(events[r].attendees) |->
                        events[r].attendees[i].id])
  /\ \A r \in DOMAIN gamingRooms :
       DistinctConns([i \in 1..Len(gamingRooms[r].participants) |->
                        gamingRooms[r].participants[i].id])
  /\ \A r \in DOMAIN teachingSessions :
       DistinctConns([i \in 1..Len(teachingSessions[r].students) |->
                        teachingSessions[r].students[i].socketId])
\* the teaching rooms whose host connection is c
HostedBy(c) ==
  {r \in DOMAIN teachingSessions : teachingSessions[r].hostSocketId = c}

\* C11: handling the disconnect of connection c reaches every room c belonged
\* to: afterwards every teaching room c hosted has hostActive = false, and c
\* is in no member list (students, participants, attendees) of a room it did
\* not host.
C11_DisconnectHandlesEveryRoom ==
  [][\A c \in ConnIds :
       disconnect(c) =>
         /\ \A r \in HostedBy(c) :
              /\ r \in DOMAIN teachingSessions'
              /\ teachingSessions'[r].hostActive = FALSE
         /\ \A r \in DOMAIN teachingSessions' \ HostedBy(c) :
              \A i \in 1..Len(teachingSessions'[r].students) :
                 teachingSessions'[r].students[i].socketId # c
         /\ \A r \in DOMAIN gamingRooms' :
              gamingRooms'[r].hostSocketId # c =>
                \A i \in 1..Len(gamingRooms'[r].participants) :
                   gamingRooms'[r].participants[i].id # c
         /\ \A r \in DOMAIN events' :
              events'[r].hostSocketId # c =>
                \A i \in 1..Len(events'[r].attendees) :
                   events'[r].attendees[i].id # c]_vars

\* the names under which the departure of a member is announced
MemberLeft == {"student-left", "user-left-webrtc", "user-disconnected"}

\* the connection ids of a member list, given the field that holds them
ListedConns(reg, r, kind) ==
  IF kind = "teaching"
  THEN {reg[r].students[i].socketId : i \in 1..Len(reg[r].students)}
  ELSE IF kind = "gaming"
  THEN {reg[r].participants[i].id : i \in 1..Len(reg[r].participants)}
  ELSE {reg[r].attendees[i].id : i \in 1..Len(reg[r].attendees)}

\* C12: for each room kind, when a non-host member of a room disconnects its
\* entry leaves the room's member list, so that afterwards no member list
\* names a disconnected connection, and every remaining live member of the
\* room is sent a member-left message.
C12_MemberRemovedOnDisconnect ==
  [][\A c \in ConnIds :
       disconnect(c) =>
         /\ \A r \in DOMAIN teachingSessions :
              (teachingSessions[r].hostSocketId # c
               /\ c \in ListedConns(teachingSessions, r, "teaching")) =>
                 /\ c \notin ListedConns(teachingSessions', r, "teaching")
                 /\ \A m \in ListedConns(teachingSessions', r, "teaching") \cap connected' :
                      \E i \in 1..Len(out') : out'[i].to = m /\ out'[i].ev \in MemberLeft
         /\ \A r \in DOMAIN gamingRooms :
              (gamingRooms[r].hostSocketId # c
               /\ c \in ListedConns(gamingRooms, r, "gaming")) =>
                 /\ c \notin ListedConns(gamingRooms', r, "gaming")
                 /\ \A m \in ListedConns(gamingRooms', r, "gaming") \cap connected' :
                      \E i \in 1..Len(out') : out'[i].to = m /\ out'[i].ev \in MemberLeft
         /\ \A r \in DOMAIN events :
              (events[r].hostSocketId # c
               /\ c \in ListedConns(events, r, "event")) =>
                 /\ c \notin ListedConns(events', r, "event")
                 /\ \A m \in ListedConns(events', r, "event") \cap connected' :
                      \E i \in 1..Len(out') : out'[i].to = m /\ out'[i].ev \in MemberLeft]_vars

\* a step appends connection c to the student list of teaching room r
AppendsStudent(c, r) ==
  /\ r \in DOMAIN teachingSessions
  /\ r \in DOMAIN teachingSessions'
  /\ Len(teachingSessions'[r].students) = Len(teachingSessions[r].students) + 1
  /\ teachingSessions'[r].students[Len(teachingSessions'[r].students)].socketId = c

\* C13: a step appends a connection to a teaching room's student list only
\* if the room's host has approved a join request of that connection for that
\* room before; a connection never approved (rejected, or never having asked)
\* is not appended by any of its own events.
C13_TeachingJoinHostGated ==
  [][\A c \in ConnIds, r \in TeachIds :
       AppendsStudent(c, r) => <<c, r>> \in approved]_vars

\* the joined notification of connection c's append reaches every other live
\* listed member once and not c, and c gets exactly one acknowledgment
JoinAnnounced(c, others, notice, ack) ==
  /\ \A m \in (others \cap connected) \ {c} :
       Cardinality(Received(out', m, notice)) = 1
  /\ Received(out', c, notice) = {}
  /\ Cardinality(Received(out', c, ack)) = 1

\* C14: every append of a member (event join, gaming join, teaching
\* confirm-join) sends the joined notification to each other current member
\* of the room and not to the acting connection, and sends exactly one direct
\* acknowledgment to the acting connection.
C14_JoinNotifiesOthersOnly ==
  [][\A c \in ConnIds :
       /\ \A r \in DOMAIN events, n \in Names :
            (joinRoomOld(c, r, n)
             /\ Len(events'[r].attendees) = Len(events[r].attendees) + 1) =>
               JoinAnnounced(c, ListedConns(events, r, "event"),
                             "attendee-joined", "event-joined")
       /\ \A r \in DOMAIN gamingRooms, n \in Names :
            (joinRoomOld(c, r, n)
             /\ Len(gamingRooms'[r].participants)
                  = Len(gamingRooms[r].participants) + 1) =>
               JoinAnnounced(c, ListedConns(gamingRooms, r, "gaming"),
                             "user-connected", "room-joined")
       /\ \A r \in DOMAIN teachingSessions, sid \in StudentIds :
            (confirmJoin(c, r, sid)
             /\ Len(teachingSessions'[r].students)
                  = Len(teachingSessions[r].students) + 1) =>
               JoinAnnounced(c, ListedConns(teachingSessions, r, "teaching"),
                             "student-joined", "room-joined")]_vars

\* the failure the vote (p, o, u) must get: "" when it must be accepted
VoteFailure(p, o, u) ==
  IF p \notin DOMAIN eventPolls THEN "Poll not found"
  ELSE LET poll == pollObjs[eventPolls[p]]
       IN IF poll.status # "active" THEN "Poll is not active"
          ELSE IF VotesOf(poll, u).voted # {} THEN "User already voted"
          ELSE IF o \notin 0..(Len(poll.options) - 1) THEN "Invalid option"
          ELSE ""

\* C15: a vote on an absent poll fails with "Poll not found", on a poll that
\* is not active with "Poll is not active", by a user in one of the poll's
\* voter lists with "User already voted", for an option id that is no index
\* of the poll with "Invalid option"; in each case, on both entry points,
\* every poll object stays as it was (an out-of-range vote is not recorded).
C15_VoteFailures ==
  [][\A p \in PollInputs, o \in OptionInputs, u \in UserIds :
       VoteFailure(p, o, u) # "" =>
         /\ votePoll(p, o, u) =>
              /\ res'.message = VoteFailure(p, o, u)
              /\ pollObjs' = pollObjs
         /\ (\E c \in ConnIds : eventVotePoll(c, p, o, u)) =>
              pollObjs' = pollObjs]_vars

\* C16: event chat is gated by chatEnabled: while it is false an
\* event-send-message appends nothing to the event's message log and sends
\* nothing to anybody (no error to the sender either); while it is true the
\* message is appended to the log and sent once to every member of the room
\* and to nobody else.
C16_EventChatGated ==
  [][\A c \in ConnIds, e \in DOMAIN events, m \in Messages :
       eventSendMessage(c, e, m) =>
         IF events[e].chatEnabled
         THEN /\ events'[e].messages = Append(events[e].messages, m)
              /\ \A k \in Members(connected, sockRooms, e) :
                   \E i \in Received(out', k, "event-message") :
                      /\ out'[i].data = m
                      /\ Received(out', k, "event-message") = {i}
              /\ \A i \in 1..Len(out') :
                   out'[i].to \in Members(connected, sockRooms, e)
         ELSE /\ events' = events
              /\ out' = <<>>]_vars

\* C16 witness: a message was logged while the chat was on, the chat was then
\* switched off, and a message sent to a room of two members has just been
\* dropped.
C16_Witness ==
  /\ last = "event-send-message"
  /\ out = <<>>
  /\ \E e \in DOMAIN events :
       /\ ~events[e].chatEnabled
       /\ Len(events[e].messages) = 1
       /\ Cardinality(Members(connected, sockRooms, e)) = 2

\* C17: a relayed offer, answer or ICE candidate sent by connection s naming
\* target t reaches at most one connection: when t is the id of a live
\* connection, that connection gets it exactly once, with the payload as sent
\* and s as the sender; when t is not the id of a live connection nothing is
\* sent to anybody; no room, membership or poll state changes.
C17_RelayTargetAddressedOnly ==
  [][\A s \in ConnIds, ev \in RelayEvents, t \in RelayTargets, p \in Payloads :
       relay(s, ev, t, p) =>
         /\ IF t.kind = "conn" /\ t.conn \in connected
            THEN out' = <<[to |-> t.conn, ev |-> ev,
                           data |-> [payload |-> p, from |-> s]]>>
            ELSE out' = <<>>
         /\ UNCHANGED <<connVars, events, pollVars, roomVars>>]_vars

\* the messages `o` are a report to connection c alone
ReportedTo(o, c) ==
  /\ o # <<>>
  /\ \A i \in 1..Len(o) : o[i].to = c

\* C18: a failing room or poll action (unknown or inactive room, unknown or
\* closed poll, repeated vote, invalid option) is reported to the acting
\* connection and to no other, leaves all room and poll state as it was, and
\* no step ends the process.
C18_FailuresReportedToActorOnly ==
  [][/\ ~crashed'
     /\ \A p \in PollInputs, o \in OptionInputs, u \in UserIds :
          VoteFailure(p, o, u) # "" =>
            /\ votePoll(p, o, u) =>
                 /\ res'.status >= 400
                 /\ out' = <<>>
                 /\ UNCHANGED <<events, pollVars, roomVars>>
            /\ \A c \in ConnIds :
                 eventVotePoll(c, p, o, u) =>
                   /\ ReportedTo(out', c)
                   /\ UNCHANGED <<events, pollVars, roomVars>>
     /\ \A c \in ConnIds, n \in Names :
          /\ \A r \in EventIds :
               (joinRoomOld(c, r, n) /\ ~IsActiveEvent(r)) =>
                  /\ ReportedTo(out', c)
                  /\ UNCHANGED <<events, pollVars, roomVars, sockRooms>>
          /\ \A r \in GameIds \ DOMAIN gamingRooms :
               joinRoomOld(c, r, n) =>
                  /\ ReportedTo(out', c)
                  /\ UNCHANGED <<events, pollVars, roomVars, sockRooms>>
          /\ \A r \in TeachIds \ DOMAIN teachingSessions :
               joinRoomOld(c, r, n) =>
                  /\ ReportedTo(out', c)
                  /\ UNCHANGED <<events, pollVars, roomVars, sockRooms>>]_vars

\* room id r is in none of the room registries
Unregistered(r) ==
  /\ r \notin DOMAIN gamingRooms
  /\ r \notin DOMAIN teachingSessions
  /\ r \notin DOMAIN events
  /\ r \notin DOMAIN rooms

\* C19: a join (join-room or join-room-old) addressed to a room id that is in
\* no room registry fails: the joiner is sent room-not-found, it is not made a
\* member or a broadcast recipient of that room id, and nothing is sent to any
\* other connection.
C19_UnknownRoomJoinFails ==
  [][\A c \in ConnIds, r \in JoinRoomIds :
       (/\ Unregistered(r)
        /\ \/ \E sh \in JoinShapes : joinRoom(c, r, sh)
           \/ \E n \in Names : joinRoomOld(c, r, n)) =>
          /\ Received(out', c, "room-not-found") # {}
          /\ Received(out', c, "room-joined") = {}
          /\ r \notin Range(sockRooms'[c])
          /\ \A i \in 1..Len(out') : out'[i].to = c
          /\ UNCHANGED roomVars]_vars

\* the kind tags room id r carries: the type of its gaming or teaching room
\* data, "event" for an entry of events
KindsOf(r) ==
  (IF r \in DOMAIN gamingRooms THEN {gamingRooms[r].type} ELSE {})
  \cup (IF r \in DOMAIN teachingSessions THEN {teachingSessions[r].type} ELSE {})
  \cup (IF r \in DOMAIN events THEN {"event"} ELSE {})

\* C20: a room carries one kind tag, and the tag it got at creation is the
\* tag it has after every later step (create-room again, join, message, poll,
\* disconnect) for as long as the room exists.
C20_RoomKindImmutable ==
  [][\A r \in RoomIds :
       /\ Cardinality(KindsOf(r)') <= 1
       /\ KindsOf(r) # {} => KindsOf(r)' \in {KindsOf(r), {}}]_vars

\* C20 witness: create-room has just been handled again while rooms of the
\* three kinds exist, the gaming room with a participant and a message, the
\* event with an attendee and a poll.
C20_Witness ==
  /\ last = "create-room"
  /\ \A r \in RoomIds : Cardinality(KindsOf(r)) = 1
  /\ \E r \in DOMAIN gamingRooms :
       /\ Len(gamingRooms[r].participants) > 0
       /\ Len(gamingRooms[r].messages) > 0
  /\ \E r \in DOMAIN events :
       /\ Len(events[r].attendees) > 0
       /\ Len(events[r].polls) > 0

\* the room registries that hold room id r
RegistriesOf(r) ==
  (IF r \in DOMAIN teachingSessions THEN {"teachingSessions"} ELSE {})
  \cup (IF r \in DOMAIN gamingRooms THEN {"gamingRooms"} ELSE {})
  \cup (IF r \in DOMAIN events THEN {"events"} ELSE {})
  \cup (IF r \in DOMAIN rooms THEN {"rooms"} ELSE {})

\* connection c is the host of the teaching or event room r
HostsQuietRoom(c, r) ==
  \/ r \in DOMAIN teachingSessions /\ teachingSessions[r].hostSocketId = c
  \/ r \in DOMAIN events /\ events[r].hostSocketId = c

\* C21: when the host connection of a teaching room or of an event room
\* disconnects, the room stays in every registry that held it, nothing is
\* sent to the sockets of the room, and an event keeps its host's name.
C21_QuietHostLoss ==
  [][\A c \in ConnIds, r \in RoomIds :
       (disconnect(c) /\ HostsQuietRoom(c, r)) =>
          /\ RegistriesOf(r)' = RegistriesOf(r)
          /\ \A i \in 1..Len(out') :
               out'[i].to \notin Members(connected, sockRooms, r)
          /\ r \in DOMAIN events => events'[r].hostName = events[r].hostName]_vars

\* C22: a room id leaves a room registry only in the step that handles the
\* disconnect of a connection, or a leave / end-session sent by that room's
\* host; no other step (create-room, join, confirm-join, message, a
\* non-host's leave) removes a room; and the loss of a connection is handled
\* by exactly one disconnect step.
C22_RoomsRemovedOnlyByDisconnectOrEnd ==
  [][/\ \A r \in RoomIds :
          RegistriesOf(r)' # RegistriesOf(r) \cup RegistriesOf(r)' =>
            \/ last' = "disconnect"
            \/ /\ last' \in {"leave-room", "end-session"}
               /\ r \in DOMAIN rooms
               /\ actor' = rooms[r].hostId
     /\ \A c \in ConnIds :
          /\ (c \in connected /\ c \notin connected') => disconnect(c)
          /\ disconnect(c) => c \notin closedConns /\ c \in closedConns']_vars

\* C22 witness: the host's leave-room has just removed the room from
\* WebRTCHandler.rooms (session-ended went out) while the teaching session, with
\* its student, is still registered.
C22_Witness ==
  /\ last = "leave-room"
  /\ \E i \in 1..Len(out) : out[i].ev = "session-ended"
  /\ \E r \in DOMAIN teachingSessions :
       /\ r \notin DOMAIN rooms
       /\ Len(teachingSessions[r].students) > 0

\* every message of a step's output goes to connection c and carries event ev
OnlyTo(msgs, c, ev) == \A i \in 1..Len(msgs) : msgs[i].to = c /\ msgs[i].ev = ev

\* C23: the steps before confirm-join leave the teaching room's student list
\* (and every socket's room membership) unchanged: a join request on a
\* registered teaching room sends join-request to the host connection only
\* and exactly one join-pending to the requester; approve-join sends
\* join-approved, carrying the host's id, to the requester only; reject-join
\* sends join-rejected, carrying a reason, to the requester only.
C23_PreConfirmationFrame ==
  [][\A c \in ConnIds, r \in TeachIds :
       /\ ((\E n \in Names : joinRoomOld(c, r, n)) /\ r \in DOMAIN teachingSessions) =>
            /\ teachingSessions' = teachingSessions
            /\ sockRooms' = sockRooms
            /\ \A i \in 1..Len(out') :
                 \/ /\ out'[i].ev = "join-request"
                    /\ out'[i].to = teachingSessions[r].hostSocketId
                    /\ out'[i].data.id = c
                 \/ /\ out'[i].ev = "join-pending"
                    /\ out'[i].to = c
            /\ Cardinality({i \in 1..Len(out') : out'[i].ev = "join-pending"}) = 1
            /\ Cardinality({i \in 1..Len(out') : out'[i].ev = "join-request"}) =
                 (IF teachingSessions[r].hostSocketId \in connected THEN 1 ELSE 0)
       /\ \A q \in ConnIds :
            /\ (approveJoin(c, q, r) /\ r \in DOMAIN teachingSessions) =>
                 /\ teachingSessions' = teachingSessions
                 /\ sockRooms' = sockRooms
                 /\ OnlyTo(out', q, "join-approved")
                 /\ Len(out') = (IF q \in connected THEN 1 ELSE 0)
                 /\ \A i \in 1..Len(out') :
                      out'[i].data.hostId = teachingSessions[r].hostSocketId
            /\ rejectJoin(c, q, r) =>
                 /\ teachingSessions' = teachingSessions
                 /\ sockRooms' = sockRooms
                 /\ OnlyTo(out', q, "join-rejected")
                 /\ Len(out') = (IF q \in connected THEN 1 ELSE 0)
                 /\ \A i \in 1..Len(out') : out'[i].data.reason # ""]_vars

\* C23 witness: the host has just approved a request on a teaching room that
\* already has a confirmed student, and the approval went out.
C23_Witness ==
  /\ last = "approve-join"
  /\ Len(out) = 1
  /\ \E r \in DOMAIN teachingSessions :
       /\ actor = teachingSessions[r].hostSocketId
       /\ out[1].data.roomId = r
       /\ Len(teachingSessions[r].students) > 0
       /\ \E c \in connected \ {actor} : r \in Range(sockRooms[c])

\* the poll is as a successful creation with some option count and duration
\* must leave it: active, options numbered 0..N-1 with no votes and no
\* voters, no total, the duration given or the default
FreshPoll(poll) ==
  /\ poll.status = "active"
  /\ Counted(poll)
  /\ \A i \in 1..Len(poll.options) :
       /\ poll.options[i].id = i - 1
       /\ poll.options[i].votes = 0
       /\ poll.options[i].voters = <<>>
  /\ poll.totalVotes = 0
  /\ poll.duration \in (Durations \ {0}) \cup {DefaultDuration}

\* C24: creating a poll (createPoll or event-start-poll) for an event that is
\* not registered fails with a not-found report, stores no poll and arms no
\* timer; a successful creation stores an active poll whose options carry the
\* ids 0..N-1 with vote count 0 and no voters, total votes 0, and the given
\* duration or 60 when none is given, and arms one timer for it.
C24_PollCreation ==
  [][/\ \A e \in EventIds, n \in OptionCounts, d \in Durations :
          /\ (createPoll(e, n, d) /\ e \notin DOMAIN events) =>
               /\ res'.status = 404
               /\ UNCHANGED pollVars
          /\ \A c \in ConnIds, sh \in PayloadShapes :
               (eventStartPoll(c, e, sh, n, d) /\ e \notin DOMAIN events) =>
                 /\ \E i \in 1..Len(out') : out'[i].to = c
                 /\ UNCHANGED pollVars
     /\ Len(pollObjs') > Len(pollObjs) =>
          /\ FreshPoll(pollObjs'[Len(pollObjs')])
          /\ Cardinality(timers') = Cardinality(timers) + 1]_vars

\* the poll a timer was armed for is still stored under its id and active
TimerPollLive(tm) ==
  /\ tm.pollId \in DOMAIN eventPolls
  /\ eventPolls[tm.pollId] = tm.ref
  /\ pollObjs[tm.ref].status = "active"

\* C25: when the expiry timer of a poll (made by createPoll or by
\* event-start-poll) fires while that poll is stored and active, the poll
\* becomes closed and every member of its room is sent a poll-ended
\* notification; when it fires on a poll that is closed or no longer stored,
\* no poll changes and nothing is sent.
C25_TimerFiring ==
  [][\A tm \in timers :
       pollTimer(tm) =>
         IF TimerPollLive(tm)
         THEN /\ pollObjs'[tm.ref].status = "closed"
              /\ \A c \in Members(connected, sockRooms, tm.eventId) :
                   \E i \in 1..Len(out') :
                     /\ out'[i].to = c
                     /\ out'[i].ev \in {"poll-ended", "event-poll-ended"}
         ELSE pollObjs' = pollObjs /\ out' = <<>>]_vars

\* the inbound events whose handling fans a notification out to a room
FanoutEvents ==
  ShareEvents \cup {"send-message", "join-room", "join-room-old", "confirm-join"}

\* C26: in the handling of one send-message, screen-share-started,
\* screen-share-stopped or join event, no connection is sent the same
\* notification (event name) twice: each member of the room receives it at
\* most once and the sender at most one acknowledgment.
C26_FanoutNeverDuplicates ==
  [][last' \in FanoutEvents =>
       \A i, j \in 1..Len(out') :
         (out'[i].to = out'[j].to /\ out'[i].ev = out'[j].ev) => i = j]_vars

\* C27: a host control event sent by a connection that is not the host
\* connection recorded for the room changes nothing and notifies no one:
\* event-end and event-toggle-chat from a non-host leave the event as it was,
\* approve-join and reject-join from a non-host send nothing to the requester.
C27_HostOnlyControls ==
  [][\A c \in ConnIds :
       /\ \A e \in EventIds :
            ((eventEnd(c, e) \/ \E b \in BOOLEAN : eventToggleChat(c, e, b))
               /\ e \in DOMAIN events /\ events[e].hostSocketId # c) =>
              events' = events /\ out' = <<>>
       /\ \A q \in ConnIds, r \in TeachIds :
            ((approveJoin(c, q, r) \/ rejectJoin(c, q, r))
               /\ r \in DOMAIN teachingSessions
               /\ teachingSessions[r].hostSocketId # c) =>
              out' = <<>>]_vars

\* C28: distinct polls have distinct ids; every poll in an event's polls list
\* is the poll the store holds under its id, and every stored poll is in the
\* polls list of the event its eventId names.
C28_PollsOneSourceOfTruth ==
  /\ \A r1, r2 \in PollRefs : r1 # r2 => pollObjs[r1].id # pollObjs[r2].id
  /\ \A e \in DOMAIN events :
       \A k \in 1..Len(events[e].polls) :
         LET r == events[e].polls[k]
         IN /\ pollObjs[r].id \in DOMAIN eventPolls
            /\ eventPolls[pollObjs[r].id] = r
  /\ \A id \in DOMAIN eventPolls :
       LET r == eventPolls[id]
       IN /\ pollObjs[r].eventId \in DOMAIN events
          /\ r \in Range(events[pollObjs[r].eventId].polls)

\* what a poll holds of its votes
VoteData(poll) == <<poll.options, poll.totalVotes, poll.votes>>

\* q is p with one whole vote more: one option's count up by one and the
\* voter appended to it, the total up by one, every other option as it was
OneCountedVote(p, q) ==
  /\ Counted(p)
  /\ q.votes = p.votes
  /\ q.totalVotes = p.totalVotes + 1
  /\ \E i \in 1..Len(p.options), u \in UserIds :
       /\ q.options[i].votes = p.options[i].votes + 1
       /\ q.options[i].voters = Append(p.options[i].voters, u)
       /\ q.options = [p.options EXCEPT ![i] = q.options[i]]

\* q is p with one user's entry of the votes map written
OneMapVote(p, q) ==
  /\ q.options = p.options
  /\ q.totalVotes = p.totalVotes
  /\ \E u \in UserIds :
       /\ u \in DOMAIN q.votes
       /\ \A w \in DOMAIN p.votes : w \in DOMAIN q.votes /\ (w # u => q.votes[w] = p.votes[w])
       /\ DOMAIN q.votes \subseteq DOMAIN p.votes \cup {u}

\* C29: under every interleaving of votes and timer firings, the vote data of
\* a poll changes only in a step that finds the poll active and leaves it
\* active, and then by one whole vote (count, voter and total together, or
\* one entry of the votes map); a step that closes a poll changes none of its
\* vote data, and a closed poll's vote data never changes again.
C29_VoteAndExpiryAtomic ==
  [][\A r \in PollRefs :
       /\ VoteData(pollObjs'[r]) # VoteData(pollObjs[r]) =>
            /\ pollObjs[r].status = "active"
            /\ pollObjs'[r].status = "active"
            /\ OneCountedVote(pollObjs[r], pollObjs'[r])
                 \/ OneMapVote(pollObjs[r], pollObjs'[r])
       /\ pollObjs'[r].status # pollObjs[r].status =>
            /\ pollObjs'[r].status = "closed"
            /\ last' = "timer"]_vars

\* C29 witness: a timer has just closed a poll made by createPoll that holds a
\* vote applied before the close.
C29_Witness ==
  /\ last = "timer"
  /\ \E r \in PollRefs :
       /\ pollObjs[r].src = "createPoll"
       /\ pollObjs[r].status = "closed"
       /\ pollObjs[r].totalVotes = 1
       /\ \E i \in 1..Len(pollObjs[r].options) : Len(pollObjs[r].options[i].voters) = 1

\* the position of an event status on created -> active -> ended
StatusRank(st) == IF st = "created" THEN 0 ELSE IF st = "active" THEN 1 ELSE 2

\* C30: an event's status never moves backwards on created -> active ->
\* ended, so an ended event stays ended whatever follows (a create-room for
\* its id included), and startedAt, once set, is never set again.
C30_EventStatusMonotone ==
  [][\A e \in DOMAIN events :
       /\ StatusRank(events'[e].status) >= StatusRank(events[e].status)
       /\ events[e].startedAt # {} => events'[e].startedAt = events[e].startedAt]_vars

\* C31: a create-room for a room id that is already registered only rebinds
\* the host connection: in every registry that holds the id, the member list,
\* the message log and the other accumulated data of the existing room stay
\* as they were (gaming participants and messages; teaching students and
\* messages; event attendees, messages and polls; the WebRTC room's students).
C31_RecreateKeepsRoomData ==
  [][\A c \in ConnIds, r \in RoomIds :
       createRoom(c, r) =>
         /\ r \in DOMAIN gamingRooms =>
              /\ gamingRooms'[r].participants = gamingRooms[r].participants
              /\ gamingRooms'[r].messages = gamingRooms[r].messages
         /\ r \in DOMAIN teachingSessions =>
              /\ teachingSessions'[r].students = teachingSessions[r].students
              /\ teachingSessions'[r].messages = teachingSessions[r].messages
         /\ r \in DOMAIN events =>
              /\ events'[r].attendees = events[r].attendees
              /\ events'[r].messages = events[r].messages
              /\ events'[r].polls = events[r].polls
         /\ r \in DOMAIN rooms =>
              rooms'[r].students = rooms[r].students]_vars

\* C32: in the handling of one join-room event the joining connection is sent
\* exactly one reply, either room-joined or room-not-found, never both and
\* never one of them twice; and every room-joined names a room that is in
\* WebRTCHandler.rooms, the registry the reply's host id and student list
\* come from.
C32_JoinOutcomeUnambiguous ==
  [][last' = "join-room" =>
       LET joined == Received(out', actor', "room-joined")
           notFound == Received(out', actor', "room-not-found")
       IN /\ Cardinality(joined) + Cardinality(notFound) = 1
          /\ \A i \in joined : out'[i].data.roomId \in DOMAIN rooms]_vars

====
